---- MODULE Spec2Model ----
(***************************************************************************)
(* The session and quota state machine of the Telegram companion bot       *)
(* (src/main.py): the users, active_sessions and checkpoints tables, the   *)
(* handlers that python-telegram-bot dispatches one at a time              *)
(* (start, handle_message, create_checkpoint_command, button_handler) and  *)
(* the Stripe webhook, which shares the event loop and can run whenever a  *)
(* handler is suspended at an await.                                       *)
(*                                                                         *)
(* Schema defaults the code relies on but does not state (the tables are   *)
(* created outside src/): users.is_premium defaults to false and           *)
(* users.last_reset_time to the insertion time; active_sessions            *)
(* .chat_history defaults to [] and .msg_counter to 0; no foreign key ties *)
(* active_sessions.user_id to users.                                       *)
(***************************************************************************)
EXTENDS Integers, Sequences, FiniteSets, TLC

\* ------------------------------------------------------------ constants

FREE_MSG_LIMIT == 10

FREE_IMG_LIMIT == 3

\* update_chat_history keeps the last 20 entries.
HISTORY_LIMIT == 20

\* handle_message triggers an image once session_counter >= 3.
IMAGE_TRIGGER == 3

\* get_or_create_user resets the counters after timedelta(hours=24).
RESET_HOURS == 24

\* The text generate_response returns when the Groq call raises.
FALLBACK == <<"fallback", 0>>

\* ---------------------------------------------------------------- bounds

\* Message turns accepted in one behaviour of Spec.
MaxTurns == 3

\* Message turns accepted in one behaviour of SpecChat.
ChatTurns == 12

\* Message turns accepted in one behaviour of SpecPay.
PayTurns == 3

\* Message turns accepted in one behaviour of SpecLive.
LiveTurns == 3

\* Environment events in one behaviour: a generator failure, a transport
\* failure, a clock step, a payment event, a checkpoint creation, the
\* replacement of a live session by a character selection.
MaxEvents == 1

\* The clock stops at MaxTime hours.
MaxTime == 50

\* The clock advances by exactly the reset period, or by an hour more.
TickSteps == {RESET_HOURS, RESET_HOURS + 1}

Users == {1, 2}

\* The characters table: reference data, character 1 free, 2 premium-only.
Characters == {1, 2}

is_free(c) == c = 1

VARIABLES
    users,            \* table users: telegram_id -> row
    active_sessions,  \* table active_sessions: rows in insertion order
    checkpoints,      \* table checkpoints: rows, id = position
    now,              \* the clock, in hours
    configured,       \* RUNPOD_ENDPOINT_ID and RUNPOD_API_KEY are both set
    pc,               \* where the handler in flight is suspended
    loc,              \* the locals of the handle_message call in flight
    out,              \* what the current or last message turn did, as seen outside
    appended,         \* per user: the history the session began with, then every entry appended
    accepted,         \* per user: message turns that passed the quota gate so far
    events            \* environment disturbances so far

vars == <<users, active_sessions, checkpoints, now, configured, pc, loc, out,
          appended, accepted, events>>

\* ------------------------------------------------------------ values

Text(n) == <<"text", n>>

Generated(n) == <<"generated", n>>

NoSession == [none |-> TRUE]

NoLocals == [none |-> TRUE]

NoOut == [result |-> "none"]

LastN(s, n) == IF Len(s) > n THEN SubSeq(s, Len(s) - n + 1, Len(s)) ELSE s

\* ------------------------------------------------------ database helpers

\* The dict get_or_create_user builds, inserts and returns for a new user.
new_user == [daily_msg_count |-> 0, daily_img_count |-> 0]

\* The row the insert leaves in the table, with the column defaults.
NewUserRow == [daily_msg_count |-> 0, daily_img_count |-> 0,
               is_premium |-> FALSE, last_reset_time |-> now]

\* Mutant: the reset is due from 24 hours on.
ResetDue_ge(u) == now - users[u].last_reset_time >= RESET_HOURS

\* Line 128.
ResetDue(u) == now - users[u].last_reset_time > RESET_HOURS

\* The users table after get_or_create_user(u).
UsersAfterGetOrCreate(u) ==
    IF u \notin DOMAIN users THEN users @@ (u :> NewUserRow)
    ELSE IF ResetDue(u)
         THEN [users EXCEPT ![u] = [@ EXCEPT !.daily_msg_count = 0,
                                             !.daily_img_count = 0,
                                             !.last_reset_time = now]]
         ELSE users

\* What get_or_create_user(u) returns.
get_or_create_user(u) ==
    IF u \notin DOMAIN users THEN new_user
    ELSE IF ResetDue(u)
         THEN [users[u] EXCEPT !.daily_msg_count = 0, !.daily_img_count = 0]
         ELSE users[u]

SessionRows(tbl, u) == SelectSeq(tbl, LAMBDA r : r.user_id = u)

get_active_session(u) ==
    IF SessionRows(active_sessions, u) = <<>> THEN NoSession
    ELSE SessionRows(active_sessions, u)[1]

\* Mutant: the first 20 entries are kept instead of the last 20.
TrimmedHistory_head(history) ==
    IF Len(history) > HISTORY_LIMIT THEN SubSeq(history, 1, HISTORY_LIMIT) ELSE history

\* Mutant: the untrimmed list is the one stored.
TrimmedHistory_none(history) == history

\* The history update_chat_history computes from the session it loads.
TrimmedHistory(history) ==
    IF Len(history) > HISTORY_LIMIT THEN LastN(history, HISTORY_LIMIT) ELSE history

\* The active_sessions table after update_chat_history(u, role, content).
update_chat_history(u, role, content) ==
    IF get_active_session(u) = NoSession THEN active_sessions
    ELSE LET history == TrimmedHistory(Append(get_active_session(u).chat_history,
                                              [role |-> role, content |-> content]))
         IN  [i \in DOMAIN active_sessions |->
                IF active_sessions[i].user_id = u
                THEN [active_sessions[i] EXCEPT !.chat_history = history]
                ELSE active_sessions[i]]

\* table("active_sessions").update({"msg_counter": n}).eq("user_id", u)
SetMsgCounter(u, n) ==
    [i \in DOMAIN active_sessions |->
        IF active_sessions[i].user_id = u
        THEN [active_sessions[i] EXCEPT !.msg_counter = n]
        ELSE active_sessions[i]]

\* Mutant: the handler writes back the whole profile it read.
SetDailyMsgCount_row(tbl, u, n) ==
    IF u \in DOMAIN tbl THEN [tbl EXCEPT ![u] = [loc.user_data EXCEPT !.daily_msg_count = n]]
    ELSE tbl

\* table("users").update({"daily_msg_count": n}).eq("telegram_id", u)
SetDailyMsgCount(tbl, u, n) ==
    IF u \in DOMAIN tbl THEN [tbl EXCEPT ![u].daily_msg_count = n] ELSE tbl

\* table("users").update({"daily_img_count": n}).eq("telegram_id", u)
SetDailyImgCount(tbl, u, n) ==
    IF u \in DOMAIN tbl THEN [tbl EXCEPT ![u].daily_img_count = n] ELSE tbl

\* table("users").update({"is_premium": True}).eq("telegram_id", u)
SetPremium(tbl, u) ==
    IF u \in DOMAIN tbl THEN [tbl EXCEPT ![u].is_premium = TRUE] ELSE tbl

\* Mutant: the insert without the delete before it.
ReplaceSession_keep(u, row) == Append(active_sessions, row)

\* table("active_sessions").delete().eq("user_id", u), then the insert of row.
ReplaceSession(u, row) ==
    Append(SelectSeq(active_sessions, LAMBDA r : r.user_id # u), row)

\* Mutant: the failure is passed on as the reply instead of the fallback.
generate_response_error(n, ok) == IF ok THEN Generated(n) ELSE <<"error", 0>>

\* Lines 183-207: the reply of the Groq call, or the fallback when it raises.
generate_response(n, ok) == IF ok THEN Generated(n) ELSE FALLBACK

\* ------------------------------------------------------------ the gates

\* Mutant: the message gate counts premium users too.
CanSendMessage_counted(user_data) == user_data.daily_msg_count < FREE_MSG_LIMIT

\* Mutant: the message gate compares with <= instead of <.
CanSendMessage_le(user_data) ==
    user_data.is_premium \/ user_data.daily_msg_count <= FREE_MSG_LIMIT

CanSendMessage(user_data) ==
    user_data.is_premium \/ user_data.daily_msg_count < FREE_MSG_LIMIT

\* Mutant: the image gate compares with <= instead of <.
CanGenerateImage_le(user_data) ==
    user_data.is_premium \/ user_data.daily_img_count <= FREE_IMG_LIMIT

CanGenerateImage(user_data) ==
    user_data.is_premium \/ user_data.daily_img_count < FREE_IMG_LIMIT

\* Mutant: no character is locked.
CharacterLocked_never(c, u) == FALSE

\* Line 504.
CharacterLocked(c, u) == ~is_free(c) /\ ~users[u].is_premium

\* ---------------------------------------------------------------- Init

Init ==
    /\ users = <<>>
    /\ active_sessions = <<>>
    /\ checkpoints = <<>>
    /\ now = 0
    /\ configured \in BOOLEAN
    /\ pc = "idle"
    /\ loc = NoLocals
    /\ out = NoOut
    /\ appended = [u \in Users |-> <<>>]
    /\ accepted = [u \in Users |-> 0]
    /\ events = 0

\* ------------------------------------------------------- handle_message

\* What a message turn shows outside: its verdict, the counters its gates
\* read, the generator calls it made and what it delivered.
TurnOut(u, result, user_data) ==
    [user |-> u, result |-> result,
     ended |-> IF result = "accepted" THEN "running"
               ELSE IF result = "key_error" THEN "aborted" ELSE "done",
     premium |-> IF "is_premium" \in DOMAIN user_data THEN user_data.is_premium ELSE FALSE,
     gate_count |-> user_data.daily_msg_count,
     img_count |-> user_data.daily_img_count,
     text_calls |-> 0, gen_ok |-> TRUE, gen_history |-> <<>>, sent_text |-> <<>>,
     trigger |-> FALSE, img_allowed |-> FALSE, image_calls |-> 0, sent_photo |-> FALSE]

\* Lines 308-334: where the handler leaves, or goes on. user_data['is_premium']
\* raises KeyError on the dict get_or_create_user returns for a new user.
Verdict(session, user_data) ==
    IF session = NoSession THEN "no_session"
    ELSE IF "is_premium" \notin DOMAIN user_data THEN "key_error"
    ELSE IF ~CanSendMessage(user_data) THEN "limit"
    ELSE "accepted"

\* Mutant: the user message is recorded before the quota gate is evaluated.
RecordsUserTurn_early(verdict) == verdict \in {"accepted", "limit"}

\* Line 340 is reached, and the user message recorded, only past both gates.
RecordsUserTurn(verdict) == verdict = "accepted"

\* Mutant: the application is built with concurrent_updates(True).
concurrent_updates_on == TRUE

\* Line 678: Application.builder().token(TOKEN).build() leaves
\* concurrent_updates off, so the dispatcher awaits each handler before it
\* takes the next update.
concurrent_updates == FALSE

\* Lines 296-350: the profile and the session are read, the session gate and
\* the quota gate are evaluated and the user message is recorded; the call
\* then suspends at send_chat_action("typing") and at generate_response,
\* between which it neither reads nor writes: one position, "generate".
HM_Receive(u) ==
    /\ concurrent_updates \/ pc = "idle"
    /\ LET user_data == get_or_create_user(u)
           session   == get_active_session(u)
           verdict   == Verdict(session, user_data)
           text      == Text(accepted[u] + 1)
       IN  /\ users' = UsersAfterGetOrCreate(u)
           /\ out' = TurnOut(u, verdict, user_data)
           /\ IF RecordsUserTurn(verdict)
              THEN /\ active_sessions' = update_chat_history(u, "user", text)
                   /\ appended' = [appended EXCEPT ![u] =
                                     Append(@, [role |-> "user", content |-> text])]
              ELSE UNCHANGED <<active_sessions, appended>>
           /\ IF verdict = "accepted"
              THEN /\ accepted' = [accepted EXCEPT ![u] = @ + 1]
                   /\ loc' = [user_id |-> u, text |-> text, user_data |-> user_data,
                              session |-> session, response_text |-> <<>>,
                              session_counter |-> 0]
                   /\ pc' = "generate"
              ELSE UNCHANGED <<accepted, loc, pc>>
    /\ UNCHANGED <<checkpoints, now, configured>>

\* Mutant: generate_response lets the Groq exception through, and the
\* handler ends there.
HM_Generate_raise(ok) ==
    /\ pc = "generate"
    /\ IF ok
       THEN /\ active_sessions' = update_chat_history(loc.user_id, "assistant",
                                                      Generated(loc.text[2]))
            /\ appended' = [appended EXCEPT ![loc.user_id] =
                   Append(@, [role |-> "assistant", content |-> Generated(loc.text[2])])]
            /\ loc' = [loc EXCEPT !.response_text = Generated(loc.text[2])]
            /\ out' = [out EXCEPT !.text_calls = @ + 1, !.gen_ok = ok,
                                  !.gen_history = loc.session.chat_history]
            /\ pc' = "reply"
       ELSE /\ pc' = "idle"
            /\ loc' = NoLocals
            /\ out' = [out EXCEPT !.text_calls = @ + 1, !.gen_ok = ok,
                                  !.ended = "aborted"]
            /\ UNCHANGED <<active_sessions, appended>>
    /\ UNCHANGED <<users, checkpoints, now, configured, accepted>>

\* Lines 350-373: send_chat_action returns, generate_response is called with
\* the session the handler loaded at line 303 and returns the reply or the
\* fallback, and the assistant entry is recorded; the call then suspends at
\* reply_text.
HM_Generate(ok) ==
    /\ pc = "generate"
    /\ LET u == loc.user_id
           response_text == generate_response(loc.text[2], ok)
       IN  /\ active_sessions' = update_chat_history(u, "assistant", response_text)
           /\ appended' = [appended EXCEPT ![u] =
                  IF get_active_session(u) = NoSession THEN @
                  ELSE Append(@, [role |-> "assistant", content |-> response_text])]
           /\ loc' = [loc EXCEPT !.response_text = response_text]
           /\ out' = [out EXCEPT !.text_calls = @ + 1, !.gen_ok = ok,
                                 !.gen_history = loc.session.chat_history]
    /\ pc' = "reply"
    /\ UNCHANGED <<users, checkpoints, now, configured, accepted>>

\* Mutant: the reply is held back until the image path is over.
reply_text_held(response_text) == <<>>

\* Line 378: what reply_text delivers to the user.
reply_text(response_text) == response_text

\* Mutant: the trigger compares with > instead of >=.
ImageTriggered_late(session_counter) == session_counter > IMAGE_TRIGGER

\* Line 394: the image trigger.
ImageTriggered(session_counter) == session_counter >= IMAGE_TRIGGER

\* Line 413, the end of the turn.
FinishTurn(u, session_counter) ==
    /\ active_sessions' = SetMsgCounter(u, session_counter)
    /\ pc' = "idle"
    /\ loc' = NoLocals

\* Lines 378-400/413: reply_text delivers the reply, daily_msg_count is
\* written, the image trigger is evaluated; the call ends, or suspends at
\* send_chat_action("upload_photo") and at generate_image, between which it
\* neither reads nor writes: one position, "image".
HM_Reply ==
    /\ pc = "reply"
    /\ LET u == loc.user_id
           new_msg_count == loc.user_data.daily_msg_count + 1
           session_counter == loc.session.msg_counter + 1
           trigger == ImageTriggered(session_counter)
           allowed == trigger /\ CanGenerateImage(loc.user_data)
       IN  /\ users' = SetDailyMsgCount(users, u, new_msg_count)
           /\ out' = [out EXCEPT !.sent_text = reply_text(loc.response_text),
                                 !.trigger = trigger,
                                 !.img_allowed = allowed,
                                 !.ended = IF allowed THEN "running" ELSE "done"]
           /\ IF allowed
              THEN /\ pc' = "image"
                   /\ loc' = [loc EXCEPT !.session_counter = 0]
                   /\ UNCHANGED active_sessions
              ELSE FinishTurn(u, IF trigger THEN 0 ELSE session_counter)
    /\ UNCHANGED <<checkpoints, now, configured, appended, accepted>>

\* Lines 400-413: send_chat_action returns; generate_image returns None at
\* once when RunPod is not configured, else calls RunPod and returns an image
\* URL or None.
HM_Image(got) ==
    /\ pc = "image"
    /\ configured \/ ~got
    /\ out' = [out EXCEPT !.image_calls = IF configured THEN @ + 1 ELSE @,
                          !.ended = IF got THEN "running" ELSE "done"]
    /\ IF got
       THEN /\ pc' = "photo"
            /\ UNCHANGED <<active_sessions, loc>>
       ELSE FinishTurn(loc.user_id, loc.session_counter)
    /\ UNCHANGED <<users, checkpoints, now, configured, appended, accepted>>

\* Lines 408-413: reply_photo delivers the image and daily_img_count is written.
HM_Photo ==
    /\ pc = "photo"
    /\ users' = SetDailyImgCount(users, loc.user_id, loc.user_data.daily_img_count + 1)
    /\ out' = [out EXCEPT !.sent_photo = TRUE, !.ended = "done"]
    /\ FinishTurn(loc.user_id, loc.session_counter)
    /\ UNCHANGED <<checkpoints, now, configured, appended, accepted>>

\* A transport call raises (send_chat_action at "generate" or "image",
\* reply_text at "reply", reply_photo at "photo"): the handler ends there and
\* the dispatcher logs the exception.
HM_Abort ==
    /\ pc \in {"generate", "reply", "image", "photo"}
    /\ pc' = "idle"
    /\ loc' = NoLocals
    /\ out' = [out EXCEPT !.ended = "aborted"]
    /\ UNCHANGED <<users, active_sessions, checkpoints, now, configured,
                   appended, accepted>>

\* ------------------------------------------------------ other handlers

\* start: lines 267-290.
Start(u) ==
    /\ pc = "idle"
    /\ users' = UsersAfterGetOrCreate(u)
    /\ out' = NoOut
    /\ UNCHANGED <<active_sessions, checkpoints, now, configured, pc, loc,
                   appended, accepted>>

\* The row lines 516-524 insert; chat_history and msg_counter take the
\* column defaults.
SelectedSession(u, c) ==
    [user_id |-> u, character_id |-> c, current_style |-> "Realistic",
     chat_history |-> <<>>, msg_counter |-> 0]

\* Mutant: the insert leaves chat_history to its column default.
RestoredSession_empty(u, save_data) ==
    [user_id |-> u, character_id |-> save_data.character_id,
     current_style |-> save_data.current_style,
     chat_history |-> <<>>, msg_counter |-> 0]

\* The row lines 575-585 insert; msg_counter takes the column default.
RestoredSession(u, save_data) ==
    [user_id |-> u, character_id |-> save_data.character_id,
     current_style |-> save_data.current_style,
     chat_history |-> save_data.chat_history, msg_counter |-> 0]

\* The row lines 433-447 insert.
CheckpointOf(u, session) ==
    [user_id |-> u, character_id |-> session.character_id,
     chat_history |-> session.chat_history,
     current_style |-> session.current_style]

\* create_checkpoint_command: lines 417-449.
CreateCheckpoint(u) ==
    /\ pc = "idle"
    /\ LET session == get_active_session(u)
       IN  IF session = NoSession
           THEN UNCHANGED checkpoints
           ELSE checkpoints' = Append(checkpoints, CheckpointOf(u, session))
    /\ out' = NoOut
    /\ UNCHANGED <<users, active_sessions, now, configured, pc, loc,
                   appended, accepted>>

\* What the user is told when the character is refused (line 506).
Locked == [result |-> "locked"]

\* button_handler, select_char_<id>: lines 492-527. users...data[0] raises
\* IndexError for a user with no row; a locked character is refused.
SelectChar(u, c) ==
    /\ pc = "idle"
    /\ IF u \notin DOMAIN users
       THEN /\ out' = NoOut
            /\ UNCHANGED <<active_sessions, appended>>
       ELSE IF CharacterLocked(c, u)
       THEN /\ out' = Locked
            /\ UNCHANGED <<active_sessions, appended>>
       ELSE /\ active_sessions' = ReplaceSession(u, SelectedSession(u, c))
            /\ appended' = [appended EXCEPT ![u] = <<>>]
            /\ out' = NoOut
    /\ UNCHANGED <<users, checkpoints, now, configured, pc, loc, accepted>>

\* Mutant: the restore moves the checkpoint into the session, deleting it.
Restore_consume(u, id) ==
    /\ pc = "idle"
    /\ IF id \notin DOMAIN checkpoints
       THEN UNCHANGED <<active_sessions, appended, checkpoints>>
       ELSE LET save_data == checkpoints[id]
            IN  /\ active_sessions' = ReplaceSession(u, RestoredSession(u, save_data))
                /\ appended' = [appended EXCEPT ![u] = save_data.chat_history]
                /\ checkpoints' = [i \in 1..(Len(checkpoints) - 1) |->
                                     IF i < id THEN checkpoints[i] ELSE checkpoints[i + 1]]
    /\ out' = NoOut
    /\ UNCHANGED <<users, now, configured, pc, loc, accepted>>

\* button_handler, restore_<id>: lines 564-588. checkpoints...data[0] raises
\* IndexError when no row has the id.
Restore(u, id) ==
    /\ pc = "idle"
    /\ IF id \notin DOMAIN checkpoints
       THEN UNCHANGED <<active_sessions, appended>>
       ELSE LET save_data == checkpoints[id]
            IN  /\ active_sessions' = ReplaceSession(u, RestoredSession(u, save_data))
                /\ appended' = [appended EXCEPT ![u] = save_data.chat_history]
    /\ out' = NoOut
    /\ UNCHANGED <<users, checkpoints, now, configured, pc, loc, accepted>>

\* stripe_webhook: lines 629-658, a verified checkout.session.completed
\* event whose metadata names telegram_id u. It runs on the same event loop
\* as the bot, so between any two steps of a handler.
StripeWebhook(u) ==
    /\ users' = SetPremium(users, u)
    /\ UNCHANGED <<active_sessions, checkpoints, now, configured, pc, loc, out,
                   appended, accepted>>

\* Time passes.
Tick(d) ==
    /\ now + d <= MaxTime
    /\ now' = now + d
    /\ UNCHANGED <<users, active_sessions, checkpoints, configured, pc, loc, out,
                   appended, accepted>>

\* ------------------------------------------------------- specifications

TotalAccepted == accepted[1] + accepted[2]

\* An environment step that counts against MaxEvents.
Event(A) == events < MaxEvents /\ A /\ events' = events + 1

\* The ids a restore button can carry: those of the rows, and one of no row.
CheckpointIds == 1..(Len(checkpoints) + 1)

\* Any other step.
Quiet(A) == A /\ UNCHANGED events

\* The whole service: two users, short conversations.
Next ==
    \/ \E u \in Users : Quiet(Start(u))
    \/ \E u \in Users : TotalAccepted < MaxTurns /\ Quiet(HM_Receive(u))
    \/ Quiet(HM_Generate(TRUE))
    \/ Event(HM_Generate(FALSE))
    \/ Quiet(HM_Reply)
    \/ \E got \in BOOLEAN : Quiet(HM_Image(got))
    \/ Quiet(HM_Photo)
    \/ Event(HM_Abort)
    \/ \E u \in Users : Event(CreateCheckpoint(u))
    \/ \E u \in Users, c \in Characters :
         IF get_active_session(u) = NoSession THEN Quiet(SelectChar(u, c))
                                              ELSE Event(SelectChar(u, c))
    \/ \E u \in Users, id \in CheckpointIds : Quiet(Restore(u, id))
    \/ \E u \in Users : Event(StripeWebhook(u))
    \/ \E d \in TickSteps : Event(Tick(d))

\* The deployment of Spec has RunPod configured.
InitConfigured == Init /\ configured

Spec == InitConfigured /\ [][Next]_vars

\* One user's long conversation: user 1 chats up to ChatTurns turns, with at
\* most MaxEvents disturbances.
NextChat ==
    \/ Quiet(Start(1))
    \/ accepted[1] < ChatTurns /\ Quiet(HM_Receive(1))
    \/ Quiet(HM_Generate(TRUE))
    \/ Event(HM_Generate(FALSE))
    \/ Quiet(HM_Reply)
    \/ \E got \in BOOLEAN : Quiet(HM_Image(got))
    \/ Quiet(HM_Photo)
    \/ Event(HM_Abort)
    \/ Event(CreateCheckpoint(1))
    \/ \E c \in Characters :
         IF get_active_session(1) = NoSession THEN Quiet(SelectChar(1, c))
                                              ELSE Event(SelectChar(1, c))
    \/ \E id \in CheckpointIds : Quiet(Restore(1, id))
    \/ Event(StripeWebhook(1))
    \/ \E d \in TickSteps : Event(Tick(d))

SpecChat == Init /\ [][NextChat]_vars

\* The premium tier: payment events arrive at any time, for either user,
\* around and during a short conversation of user 1; user 2 presses buttons
\* and saves checkpoints, and sends no message.
NextPay ==
    \/ \E u \in Users : Quiet(Start(u))
    \/ accepted[1] < PayTurns /\ Quiet(HM_Receive(1))
    \/ Quiet(HM_Generate(TRUE))
    \/ Event(HM_Generate(FALSE))
    \/ Quiet(HM_Reply)
    \/ \E got \in BOOLEAN : Quiet(HM_Image(got))
    \/ Quiet(HM_Photo)
    \/ Event(HM_Abort)
    \/ \E u \in Users : Event(CreateCheckpoint(u))
    \/ \E u \in Users, c \in Characters :
         IF get_active_session(u) = NoSession THEN Quiet(SelectChar(u, c))
                                              ELSE Event(SelectChar(u, c))
    \/ \E u \in Users, id \in CheckpointIds : Quiet(Restore(u, id))
    \/ \E u \in Users : Quiet(StripeWebhook(u))
    \/ \E d \in TickSteps : Event(Tick(d))

SpecPay == InitConfigured /\ [][NextPay]_vars

\* The call of generate_response returns: the reply, or the fallback after
\* an exception or a timeout of the Groq client.
GeneratorReturns == \E ok \in BOOLEAN : Quiet(HM_Generate(ok))

\* The call of generate_image returns: None at once, None after an
\* exception or the 60 s timeout of the request, or an image URL.
ImageReturns == \E got \in BOOLEAN : Quiet(HM_Image(got))

\* The store and the transport respond: no transport call raises, and both
\* generators fail as often as they like.
NextLive ==
    \/ Quiet(Start(1))
    \/ accepted[1] < LiveTurns /\ Quiet(HM_Receive(1))
    \/ GeneratorReturns
    \/ Quiet(HM_Reply)
    \/ ImageReturns
    \/ Quiet(HM_Photo)
    \/ Event(CreateCheckpoint(1))
    \/ \E c \in Characters :
         IF get_active_session(1) = NoSession THEN Quiet(SelectChar(1, c))
                                              ELSE Event(SelectChar(1, c))
    \/ \E id \in CheckpointIds : Quiet(Restore(1, id))
    \/ Event(StripeWebhook(1))
    \/ \E d \in TickSteps : Event(Tick(d))

\* The event loop resumes a suspended handler once the call it awaits has
\* returned, and every awaited call returns.
Fairness ==
    /\ WF_vars(GeneratorReturns)
    /\ WF_vars(Quiet(HM_Reply))
    /\ WF_vars(ImageReturns)
    /\ WF_vars(Quiet(HM_Photo))

SpecLive == Init /\ [][NextLive]_vars /\ Fairness

\* ---------------------------------------------------------------- claims

\* The history of u's active session.
HistoryOf(tbl, u) == SessionRows(tbl, u)[1].chat_history

HasSession(tbl, u) == SessionRows(tbl, u) # <<>>

\* A message turn got as far as the quota gate.
Gated == out.result \in {"accepted", "limit"}

\* C1: a non-premium turn is accepted exactly when the daily_msg_count the
\* gate reads is below 10; and in a conversation with no disturbance, hence
\* within one 24-hour window, message k of a non-premium user is accepted
\* with k - 1 messages counted, up to the 10th, its reply is generated and
\* delivered, and the message denied is the 11th.
C1_FreeQuota ==
    (Gated /\ ~out.premium) =>
        /\ (out.result = "accepted") <=> (out.gate_count < FREE_MSG_LIMIT)
        /\ (events = 0 /\ out.result = "accepted") =>
              /\ out.gate_count = accepted[out.user] - 1
              /\ accepted[out.user] <= FREE_MSG_LIMIT
              /\ (out.ended = "done") =>
                    /\ out.text_calls = 1
                    /\ out.sent_text = Generated(accepted[out.user])
                    /\ users[out.user].daily_msg_count = accepted[out.user]
        /\ (events = 0 /\ out.result = "limit") => accepted[out.user] = FREE_MSG_LIMIT

\* The 11th message of an undisturbed conversation has been denied.
C1_Witness ==
    /\ out.result = "limit"
    /\ events = 0
    /\ accepted[1] = 10
    /\ users[1].daily_msg_count = 10
    /\ ~users[1].is_premium

\* The step in which handle_message denies u's message at the quota gate.
DeniedStep(u) == HM_Receive(u) /\ out'.result = "limit"

\* C2: a turn denied at the quota gate calls neither generator, ends there,
\* and leaves the session's chat_history and msg_counter and the profile's
\* daily_msg_count and daily_img_count as they were.
C2_DenialChangesNothing ==
    [][\A u \in Users : DeniedStep(u) =>
          /\ active_sessions' = active_sessions
          /\ users'[u].daily_msg_count = users[u].daily_msg_count
          /\ users'[u].daily_img_count = users[u].daily_img_count
          /\ users[u].daily_msg_count = out'.gate_count
          /\ out'.text_calls = 0 /\ out'.image_calls = 0
          /\ out'.ended = "done" /\ pc' = "idle"]_vars

\* A turn was denied while the session held a history.
C2_Witness ==
    /\ out.result = "limit"
    /\ pc = "idle"
    /\ HasSession(active_sessions, 1)
    /\ Len(HistoryOf(active_sessions, 1)) = 20
    /\ out.text_calls = 0

\* C3: the stored chat_history is, in order, the last min(20, k) of the k
\* entries the session has been given (those it began with, empty after a
\* selection, then each one appended), so its length is min(20, k).
C3_LastTwenty ==
    \A u \in Users : HasSession(active_sessions, u) =>
        /\ HistoryOf(active_sessions, u) = LastN(appended[u], HISTORY_LIMIT)
        /\ Len(HistoryOf(active_sessions, u)) =
             IF Len(appended[u]) < HISTORY_LIMIT THEN Len(appended[u]) ELSE HISTORY_LIMIT

\* More than 20 entries were appended to a session that began empty.
C3_Witness ==
    /\ HasSession(active_sessions, 1)
    /\ Len(appended[1]) = 23
    /\ appended[1][1].content = Text(1)
    /\ HistoryOf(active_sessions, 1)[1].content = Generated(2)

\* C4: every active session's chat_history and every checkpoint's
\* chat_history has at most 20 entries, also while a turn is in flight or
\* after it was interrupted.
C4_HistoryBounded ==
    /\ \A i \in DOMAIN active_sessions : Len(active_sessions[i].chat_history) <= HISTORY_LIMIT
    /\ \A i \in DOMAIN checkpoints : Len(checkpoints[i].chat_history) <= HISTORY_LIMIT

\* A turn was interrupted after its user message was recorded and before
\* any assistant entry; the conversation went on and the history was trimmed.
C4_Witness ==
    /\ HasSession(active_sessions, 1)
    /\ Len(appended[1]) > HISTORY_LIMIT
    /\ Len(HistoryOf(active_sessions, 1)) = HISTORY_LIMIT
    /\ \E i \in 1..(HISTORY_LIMIT - 1) :
          /\ HistoryOf(active_sessions, 1)[i].role = "user"
          /\ HistoryOf(active_sessions, 1)[i + 1].role = "user"

\* The turn in flight or just ended has evaluated the image trigger.
TriggerEvaluated == out.result = "accepted" /\ out.sent_text # <<>>

\* C5: the stored msg_counter is always 0, 1 or 2, and 0 after a completed
\* turn that reached the image trigger; and in an undisturbed conversation
\* (one fresh session, no turn interrupted) the trigger is reached on
\* accepted turn n exactly when n is a multiple of 3, and a completed turn n
\* leaves msg_counter = n mod 3.
C5_ImageEveryThird ==
    /\ \A i \in DOMAIN active_sessions : active_sessions[i].msg_counter \in 0..(IMAGE_TRIGGER - 1)
    /\ (TriggerEvaluated /\ out.trigger /\ out.ended = "done") =>
          SessionRows(active_sessions, out.user)[1].msg_counter = 0
    /\ (events = 0 /\ TriggerEvaluated) =>
          /\ out.trigger <=> (accepted[out.user] % IMAGE_TRIGGER = 0)
          /\ (out.ended = "done") =>
                SessionRows(active_sessions, out.user)[1].msg_counter
                   = accepted[out.user] % IMAGE_TRIGGER

\* Turn 9 of an undisturbed conversation reached the trigger, and completed.
C5_Witness ==
    /\ events = 0 /\ TriggerEvaluated /\ out.ended = "done"
    /\ accepted[1] = 9
    /\ out.trigger
    /\ SessionRows(active_sessions, 1)[1].msg_counter = 0

\* C6: the image generator is called only at a trigger the image gate
\* allowed (premium, or daily_img_count < 3); a completed turn raises
\* daily_img_count by one exactly when it delivered an image; and a turn
\* whose image was skipped by quota, or not obtained, still completes with
\* the reply delivered, daily_msg_count one higher and daily_img_count as
\* it was.
C6_ImageQuota ==
    (out.result = "accepted") =>
        /\ (out.image_calls > 0 \/ out.sent_photo) =>
              /\ out.trigger
              /\ out.premium \/ out.img_count < FREE_IMG_LIMIT
        /\ out.image_calls <= 1
        /\ (out.ended = "done") =>
              /\ users[out.user].daily_img_count =
                    out.img_count + (IF out.sent_photo THEN 1 ELSE 0)
              /\ out.sent_text # <<>>
              /\ users[out.user].daily_msg_count = out.gate_count + 1
        /\ (out.ended = "running" /\ ~out.sent_photo) =>
              users[out.user].daily_img_count = out.img_count

\* A free user with daily_img_count = 3 reached the trigger: the image was
\* skipped and the turn completed.
C6_Witness ==
    /\ out.result = "accepted" /\ out.ended = "done"
    /\ out.trigger /\ ~out.img_allowed
    /\ ~out.premium /\ out.img_count = 3
    /\ out.image_calls = 0
    /\ users[out.user].daily_img_count = 3

\* The checkpoint a restore names is missing, or another user's.
NotRestorable(u, id) == id \notin DOMAIN checkpoints \/ checkpoints[id].user_id # u

\* C7: a restore of a checkpoint that does not exist or that another user
\* owns changes no table: the requesting user's session is neither deleted
\* nor replaced.
C7_RestoreChecksOwner ==
    [][\A u \in Users, id \in CheckpointIds :
          (Restore(u, id) /\ NotRestorable(u, id)) =>
              UNCHANGED <<users, active_sessions, checkpoints>>]_vars

\* C8: a restore of a checkpoint the user owns leaves the user one session
\* with the checkpoint's chat_history, current_style and character_id; a
\* checkpoint is created as a copy of the session's character, history and
\* style, and no step changes a stored checkpoint: so restoring it later
\* gives back the history and style the session had when it was created.
C8_RestoreReproduces ==
    [][/\ \A u \in Users, id \in DOMAIN checkpoints :
             (Restore(u, id) /\ checkpoints[id].user_id = u) =>
                 /\ Len(SessionRows(active_sessions', u)) = 1
                 /\ HistoryOf(active_sessions', u) = checkpoints[id].chat_history
                 /\ SessionRows(active_sessions', u)[1].current_style
                       = checkpoints[id].current_style
                 /\ SessionRows(active_sessions', u)[1].character_id
                       = checkpoints[id].character_id
       /\ \A u \in Users :
             (CreateCheckpoint(u) /\ HasSession(active_sessions, u)) =>
                 /\ Len(checkpoints') = Len(checkpoints) + 1
                 /\ checkpoints'[Len(checkpoints')].user_id = u
                 /\ checkpoints'[Len(checkpoints')].chat_history
                       = HistoryOf(active_sessions, u)
                 /\ checkpoints'[Len(checkpoints')].current_style
                       = SessionRows(active_sessions, u)[1].current_style
                 /\ checkpoints'[Len(checkpoints')].character_id
                       = SessionRows(active_sessions, u)[1].character_id
       /\ \A id \in DOMAIN checkpoints :
             id \in DOMAIN checkpoints' /\ checkpoints'[id] = checkpoints[id]]_vars

\* User 1 saved a checkpoint after one turn, took another turn, and restored
\* it: the session is back to the two entries of the checkpoint.
C8_Witness ==
    /\ pc = "idle"
    /\ Len(checkpoints) = 1 /\ checkpoints[1].user_id = 1
    /\ Len(checkpoints[1].chat_history) = 2
    /\ accepted[1] = 2
    /\ HasSession(active_sessions, 1)
    /\ HistoryOf(active_sessions, 1) = checkpoints[1].chat_history
    /\ appended[1] = checkpoints[1].chat_history

\* C9: no user ever has more than one active_sessions row, and after a
\* character selection that is granted, or a restore of a stored checkpoint,
\* the user's one row holds that selection's or that checkpoint's data.
C9_OneSession ==
    [][/\ \A u \in Users : Len(SessionRows(active_sessions', u)) <= 1
       /\ \A u \in Users, c \in Characters :
             (SelectChar(u, c) /\ u \in DOMAIN users /\ ~CharacterLocked(c, u)) =>
                 /\ Len(SessionRows(active_sessions', u)) = 1
                 /\ SessionRows(active_sessions', u)[1].character_id = c
                 /\ HistoryOf(active_sessions', u) = <<>>
       /\ \A u \in Users, id \in DOMAIN checkpoints :
             Restore(u, id) =>
                 /\ Len(SessionRows(active_sessions', u)) = 1
                 /\ SessionRows(active_sessions', u)[1].character_id
                       = checkpoints[id].character_id
                 /\ HistoryOf(active_sessions', u) = checkpoints[id].chat_history]_vars

\* User 1 chatted, then selected a character again: the one row of user 1
\* is the new, empty session.
C9_Witness ==
    /\ pc = "idle"
    /\ accepted[1] >= 1
    /\ checkpoints = <<>>
    /\ Len(SessionRows(active_sessions, 1)) = 1
    /\ HistoryOf(active_sessions, 1) = <<>>
    /\ SessionRows(active_sessions, 1)[1].msg_counter = 0

\* The last entry of the history of the session the turn belongs to.
LastEntry == LET h == HistoryOf(active_sessions, out.user) IN h[Len(h)]

\* C10: when the text generator failed, the assistant entry recorded is the
\* fallback text and so is the text delivered; in every accepted turn the
\* text delivered is the assistant entry recorded for the turn.
C10_ReplyIsRecorded ==
    (out.result = "accepted" /\ out.text_calls > 0) =>
        /\ out.text_calls = 1
        /\ LastEntry.role = "assistant"
        /\ ~out.gen_ok => LastEntry.content = FALLBACK
        /\ (out.sent_text # <<>>) => LastEntry.content = out.sent_text
        /\ (out.ended = "done") => out.sent_text # <<>>

\* The generator failed and the turn completed with the fallback delivered.
C10_Witness ==
    /\ out.result = "accepted" /\ out.ended = "done"
    /\ ~out.gen_ok
    /\ out.sent_text = FALLBACK
    /\ LastEntry = [role |-> "assistant", content |-> FALLBACK]

\* C11: within a turn the image generator is called, and an image
\* delivered, only after the turn's text reply has been delivered: while the
\* handler is at the image generator or at the photo delivery, and in every
\* turn that called the image generator or delivered an image, the reply
\* recorded for the turn is already with the user.
C11_TextBeforeImage ==
    /\ (pc \in {"image", "photo"}) =>
          /\ out.result = "accepted"
          /\ out.sent_text = loc.response_text
          /\ out.sent_text # <<>>
    /\ (out.result = "accepted" /\ (out.image_calls > 0 \/ out.sent_photo)) =>
          /\ out.sent_text # <<>>
          /\ out.text_calls = 1

\* The third turn delivered its reply, then called RunPod and delivered
\* the image.
C11_Witness ==
    /\ out.result = "accepted" /\ out.ended = "done"
    /\ accepted[1] = 3
    /\ out.sent_text = Generated(3)
    /\ out.image_calls = 1
    /\ out.sent_photo

\* The entry a turn records for role with content.
Entry(role, content) == [role |-> role, content |-> content]

\* C12: no update of a turn is lost. When a turn writes daily_msg_count,
\* msg_counter or chat_history, the stored value is still the one the turn
\* read (plus the turn's own earlier write), so the write raises
\* daily_msg_count by exactly one, advances msg_counter by one modulo 3 and
\* appends to the history as stored; hence, once n accepted turns of a
\* fresh session have completed with no reset and no interruption,
\* daily_msg_count = n, msg_counter = n mod 3 and chat_history holds the
\* last min(20, 2n) of the 2n entries appended.
C12_NoLostUpdate ==
    [][/\ HM_Reply =>
             /\ users[loc.user_id].daily_msg_count = loc.user_data.daily_msg_count
             /\ users'[loc.user_id].daily_msg_count
                   = users[loc.user_id].daily_msg_count + 1
       /\ (pc # "idle" /\ pc' = "idle" /\ out'.ended = "done") =>
             /\ SessionRows(active_sessions, loc.user_id)[1].msg_counter
                   = loc.session.msg_counter
             /\ SessionRows(active_sessions', loc.user_id)[1].msg_counter
                   = (loc.session.msg_counter + 1) % IMAGE_TRIGGER
       /\ \A ok \in BOOLEAN : HM_Generate(ok) =>
             /\ HistoryOf(active_sessions, loc.user_id)
                   = LastN(Append(loc.session.chat_history, Entry("user", loc.text)),
                           HISTORY_LIMIT)
             /\ HistoryOf(active_sessions', loc.user_id)
                   = LastN(Append(HistoryOf(active_sessions, loc.user_id),
                                  Entry("assistant", loc'.response_text)),
                           HISTORY_LIMIT)
       /\ (events' = 0 /\ pc' = "idle") =>
             \A u \in DOMAIN users' : HasSession(active_sessions', u) =>
                 /\ users'[u].daily_msg_count = accepted'[u]
                 /\ SessionRows(active_sessions', u)[1].msg_counter
                       = accepted'[u] % IMAGE_TRIGGER
                 /\ Len(appended'[u]) = 2 * accepted'[u]
                 /\ HistoryOf(active_sessions', u)
                       = LastN(appended'[u], HISTORY_LIMIT)]_vars

\* Twelve turns of a premium user completed in one session and one day:
\* the count is 12, the counter 12 mod 3 and the history the last 20 of 24.
C12_Witness ==
    /\ pc = "idle" /\ now = 0
    /\ accepted[1] = 12
    /\ users[1].daily_msg_count = 12
    /\ SessionRows(active_sessions, 1)[1].msg_counter = 0
    /\ Len(appended[1]) = 24
    /\ HistoryOf(active_sessions, 1) = LastN(appended[1], HISTORY_LIMIT)
    /\ HistoryOf(active_sessions, 1)[1].content = Text(3)

\* C13: a profile whose is_premium is true keeps it true in every later
\* step, whichever handler takes the step and whatever a handler in flight
\* read before the grant; and a payment event for a user with a profile
\* leaves is_premium true and the counters as they were.
C13_PremiumStays ==
    [][/\ \A u \in DOMAIN users :
             users[u].is_premium => (u \in DOMAIN users' /\ users'[u].is_premium)
       /\ \A u \in DOMAIN users :
             StripeWebhook(u) =>
                 /\ users'[u].is_premium
                 /\ users'[u].daily_msg_count = users[u].daily_msg_count
                 /\ users'[u].daily_img_count = users[u].daily_img_count]_vars

\* The payment landed while a turn was in flight: the handler is about to
\* write the counters from a profile it read before the grant.
C13_Witness ==
    /\ pc = "reply"
    /\ ~loc.user_data.is_premium
    /\ users[loc.user_id].is_premium

\* C14: a call of get_or_create_user for an existing profile (by start or
\* by handle_message) made more than 24 hours after last_reset_time stores
\* and returns both counters as 0 and stores last_reset_time = now, and
\* leaves is_premium alone; a call made at most 24 hours after it changes
\* nothing in the profile and returns it as stored, so calls repeated in
\* one window are idempotent.
C14_LazyReset ==
    [][\A u \in DOMAIN users : (Start(u) \/ HM_Receive(u)) =>
          /\ IF now - users[u].last_reset_time > RESET_HOURS
             THEN /\ users'[u].daily_msg_count = 0
                  /\ users'[u].daily_img_count = 0
                  /\ users'[u].last_reset_time = now
                  /\ users'[u].is_premium = users[u].is_premium
                  /\ get_or_create_user(u).daily_msg_count = 0
                  /\ get_or_create_user(u).daily_img_count = 0
             ELSE /\ users'[u] = users[u]
                  /\ get_or_create_user(u) = users[u]
          /\ HM_Receive(u) =>
                /\ out'.gate_count = users'[u].daily_msg_count
                /\ out'.img_count = users'[u].daily_img_count]_vars

\* A day and an hour after the first turn the second one found the
\* counters reset: its gate read 0 and last_reset_time is the time of the call.
C14_Witness ==
    /\ pc = "generate"
    /\ now = RESET_HOURS + 1
    /\ users[1].last_reset_time = now
    /\ accepted[1] = 2
    /\ out.result = "accepted" /\ out.gate_count = 0
    /\ users[1].daily_msg_count = 0

\* C15: a message of a user whose profile has is_premium true, sent to a
\* session, is accepted whatever daily_msg_count is, and when such a turn
\* reaches the image trigger the image path is taken whatever
\* daily_img_count is.
C15_PremiumUnlimited ==
    [][/\ \A u \in DOMAIN users :
             (HM_Receive(u) /\ users[u].is_premium /\ HasSession(active_sessions, u)) =>
                 /\ out'.result = "accepted"
                 /\ out'.premium
                 /\ pc' = "generate"
       /\ (HM_Reply /\ out.premium /\ out'.trigger) =>
             /\ out'.img_allowed
             /\ pc' = "image"]_vars

\* Turn 12 of a premium user: the message gate read 11 messages, the image
\* gate 3 images, and the image generator was called.
C15_Witness ==
    /\ out.result = "accepted" /\ out.premium
    /\ out.gate_count > FREE_MSG_LIMIT
    /\ out.img_count = FREE_IMG_LIMIT
    /\ out.trigger /\ out.img_allowed
    /\ out.image_calls = 1

\* C16: the selection of a character that is not free by a user who is not
\* premium (or has no profile) is refused and changes no table: the user's
\* active session, if any, stays as it was, and so does everyone else's.
C16_LockedSelection ==
    [][\A u \in Users, c \in Characters :
          (SelectChar(u, c) /\ ~is_free(c)
             /\ (u \in DOMAIN users => ~users[u].is_premium)) =>
              /\ UNCHANGED <<users, active_sessions, checkpoints>>
              /\ (u \in DOMAIN users) => out' = Locked]_vars

\* A free user in the middle of a conversation asked for the premium-only
\* character and was refused: the session still holds the conversation.
C16_Witness ==
    /\ out = Locked
    /\ 1 \in DOMAIN users /\ ~users[1].is_premium
    /\ HasSession(active_sessions, 1)
    /\ SessionRows(active_sessions, 1)[1].character_id = 1
    /\ Len(HistoryOf(active_sessions, 1)) >= 2

\* C17: in every accepted turn the history handed to the text generator
\* ends with the user message of this turn, being the session's history as
\* stored once that message was appended and trimmed.
C17_GeneratorSeesUserMessage ==
    (out.result = "accepted" /\ out.text_calls > 0) =>
        /\ out.gen_history # <<>>
        /\ out.gen_history[Len(out.gen_history)]
              = Entry("user", Text(accepted[out.user]))

\* C18: a stored checkpoint is never changed and never deleted: every step
\* of every handler, for every user, leaves each checkpoint row in place
\* with its owner, character_id, chat_history and current_style, and a
\* restore leaves the whole table as it was; so the turns taken in a
\* session restored from a checkpoint do not reach the checkpoint.
C18_CheckpointImmutable ==
    [][/\ Len(checkpoints') >= Len(checkpoints)
       /\ \A id \in DOMAIN checkpoints :
             /\ checkpoints'[id].user_id = checkpoints[id].user_id
             /\ checkpoints'[id].character_id = checkpoints[id].character_id
             /\ checkpoints'[id].chat_history = checkpoints[id].chat_history
             /\ checkpoints'[id].current_style = checkpoints[id].current_style
       /\ (pc # "idle" \/ pc' # "idle") => checkpoints' = checkpoints
       /\ \A u \in Users, c \in Characters : SelectChar(u, c) => checkpoints' = checkpoints
       /\ \A u \in Users, id \in CheckpointIds : Restore(u, id) => checkpoints' = checkpoints]_vars

\* User 1 saved a checkpoint after the first turn, took a second turn,
\* restored the checkpoint and took a third turn in the restored session:
\* the session holds four entries, the checkpoint still its two.
C18_Witness ==
    /\ pc = "idle"
    /\ Len(checkpoints) = 1
    /\ checkpoints[1].chat_history = <<Entry("user", Text(1)), Entry("assistant", Generated(1))>>
    /\ HasSession(active_sessions, 1)
    /\ Len(HistoryOf(active_sessions, 1)) = 4
    /\ SubSeq(HistoryOf(active_sessions, 1), 1, 2) = checkpoints[1].chat_history
    /\ HistoryOf(active_sessions, 1)[3] = Entry("user", Text(3))

\* C19: every accepted turn, once it is waiting for the text generator,
\* comes to its end with a text reply delivered and daily_msg_count
\* and msg_counter written (0 exactly when the turn reached the image
\* trigger), whether the text generator and the image generator succeed or
\* fail, provided the store and the transport respond.
C19_TurnCompletes ==
    (pc = "generate") ~>
        (/\ pc = "idle"
         /\ out.result = "accepted"
         /\ out.ended = "done"
         /\ out.sent_text # <<>>
         /\ users[out.user].daily_msg_count = out.gate_count + 1
         /\ (SessionRows(active_sessions, out.user)[1].msg_counter = 0) <=> out.trigger)

\* Both generators failed in the third turn: the fallback was delivered, no
\* image was, and the turn ended with its counters written.
C19_Witness ==
    /\ pc = "idle"
    /\ out.result = "accepted" /\ out.ended = "done"
    /\ ~out.gen_ok /\ out.sent_text = FALLBACK
    /\ out.trigger /\ out.img_allowed /\ out.image_calls = 1 /\ ~out.sent_photo
    /\ users[1].daily_msg_count = out.gate_count + 1
    /\ SessionRows(active_sessions, 1)[1].msg_counter = 0

\* C20: no user who is not premium (or has no profile) has an active
\* session with a character that is not free.
C20_NoLockedSession ==
    \A i \in DOMAIN active_sessions :
        ~is_free(active_sessions[i].character_id) =>
            /\ active_sessions[i].user_id \in DOMAIN users
            /\ users[active_sessions[i].user_id].is_premium

====
